---------------------------- MODULE Spec2Model ----------------------------
(***************************************************************************)
(* Model of the stock screener in src/stock-filter.py (cloud-penetration   *)
(* recipe) and src/stock-allimi/stock-filter-1.py (strict-below-cloud      *)
(* recipe).  Definitions that model stock-filter-1.py carry the suffix _1; *)
(* the unsuffixed names model stock-filter.py.                             *)
(*                                                                         *)
(* Numbers.  Prices and volumes are integers (won, shares).  Every derived *)
(* price quantity is held exactly, in quarter units (4 * value): the       *)
(* Ichimoku lines are halves of sums of integers and leading_span1 is a    *)
(* half of a sum of halves, so 4 * value is always an integer.  Moving     *)
(* averages are held in twentieth units (20 * value).  A pandas NaN is the *)
(* sentinel NaN; every comparison with NaN is false, as in IEEE/Python.    *)
(***************************************************************************)
EXTENDS Integers, Sequences, FiniteSets, TLC

VARIABLES
    df,       \* evaluator: the OHLCV frame under evaluation
    epc,      \* evaluator: which function is applied next
    cc1,      \* what check_conditions of stock-filter-1.py returned on df
    cc2,      \* what check_conditions of stock-filter.py returned on df
    an1,      \* what analyze_stock of stock-filter-1.py returned on df
    an2,      \* what analyze_stock of stock-filter.py returned on df
    script,   \* the run: which of the two scripts is executing
    feed,     \* the run: what fdr.DataReader answers for each listed stock
    mpc,      \* the run: where the main thread is
    submitted, \* the run: how many stock_infos have been submitted
    future,   \* the run: per task, the state and outcome of its Future
    yielded,  \* the run: the tasks as_completed has already yielded
    matched_stocks, \* the run: the list run_filter builds and returns
    hook      \* the run: what the call of send_discord_webhook did

evars == <<df, epc, cc1, cc2, an1, an2>>
mvars == <<script, feed, mpc, submitted, future, yielded, matched_stocks, hook>>
vars == <<df, epc, cc1, cc2, an1, an2,
          script, feed, mpc, submitted, future, yielded, matched_stocks, hook>>

---------------------------------------------------------------------------
(* Program constants *)

conversion_period == 9
base_period == 26
leading_span2_period == 52
displacement == 26
period9 == 9
period26 == 26
period52 == 52
MIN_LEN_1 == 78
MIN_LEN == 60
VOLUME_TAIL == 90
VOLUME_LIMIT == 1000000
MA_SHORT == 5
MA_LONG == 20
CROSS_LOOKBACK == 7
max_workers == 10
HTTP_NO_CONTENT == 204

---------------------------------------------------------------------------
(* pandas / Python primitives *)

\* The pandas "not available" value.  Prices and volumes are >= 0.
NaN == -1

isna(x) == x = NaN

\* IEEE comparisons: false as soon as one side is NaN.
Lt(a, b) == ~isna(a) /\ ~isna(b) /\ a < b
Le(a, b) == ~isna(a) /\ ~isna(b) /\ a <= b
Gt(a, b) == ~isna(a) /\ ~isna(b) /\ a > b
Ge(a, b) == ~isna(a) /\ ~isna(b) /\ a >= b

\* Python's builtin max(a, b) / min(a, b): the first argument is kept unless
\* the second compares strictly greater / smaller.  With a NaN second
\* argument the comparison is false and the first argument is returned.
PyMax(a, b) == IF Gt(b, a) THEN b ELSE a
PyMin(a, b) == IF Lt(b, a) THEN b ELSE a

\* Series.iloc[i] on a series of length n: negative i counts from the end;
\* IlocOK is false where pandas raises IndexError.
IlocOK(n, i) == -n <= i /\ i < n
IlocPos(n, i) == IF i < 0 THEN n + i ELSE i

SetMax(S) == CHOOSE m \in S : \A x \in S : x <= m
SetMin(S) == CHOOSE m \in S : \A x \in S : m <= x

\* high.rolling(w).max() at 0-based index k: NaN until w bars are available.
RollingMaxHigh(d, w, k) ==
    IF k < w - 1 THEN NaN ELSE SetMax({d[j + 1].High : j \in (k - w + 1)..k})

\* low.rolling(w).min() at 0-based index k.
RollingMinLow(d, w, k) ==
    IF k < w - 1 THEN NaN ELSE SetMin({d[j + 1].Low : j \in (k - w + 1)..k})

RECURSIVE SumClose(_, _, _)
SumClose(d, lo, hi) ==
    IF lo > hi THEN 0 ELSE d[hi + 1].Close + SumClose(d, lo, hi - 1)

RECURSIVE SumVolume(_, _, _)
SumVolume(d, lo, hi) ==
    IF lo > hi THEN 0 ELSE d[hi + 1].Volume + SumVolume(d, lo, hi - 1)

\* df['Close'].rolling(w).mean() at index k, in twentieth units
\* (20 * mean); w divides 20 for both windows used.  Sums of integer prices
\* are exact in doubles and IEEE division is correctly rounded, so two float
\* means compare as the exact means do.
RollingMeanClose(d, w, k) ==
    IF k < w - 1 THEN NaN ELSE (20 \div w) * SumClose(d, k - w + 1, k)

\* (high.rolling(w).max() + low.rolling(w).min()) / 2 at index k, in quarter
\* units: 4 * (hi + lo) / 2 = 2 * (hi + lo).
Midpoint(d, w, k) ==
    LET hi == RollingMaxHigh(d, w, k)
        lo == RollingMinLow(d, w, k)
    IN  IF isna(hi) \/ isna(lo) THEN NaN ELSE 2 * (hi + lo)

\* (a + b) / 2 of two quarter-unit values (both even, so the half is exact).
Half(a, b) == IF isna(a) \/ isna(b) THEN NaN ELSE (a + b) \div 2

\* A price in quarter units.
Quarter(p) == 4 * p

\* df['Volume'].tail(90): the 0-based index of its first row.
TailStart(d) == IF Len(d) > VOLUME_TAIL THEN Len(d) - VOLUME_TAIL ELSE 0

\* Mutant of three_month_avg_too_high: ">" where the code has ">=".
three_month_avg_strict(d) ==
    LET lo == TailStart(d)
        cnt == Len(d) - lo
    IN  cnt > 0 /\ SumVolume(d, lo, Len(d) - 1) > VOLUME_LIMIT * cnt

\* df['Volume'].tail(90).mean() >= 1_000_000.  The mean of an empty tail is
\* NaN and compares false; otherwise sum / count >= limit is decided exactly
\* as sum >= limit * count.
three_month_avg_too_high(d) ==
    LET lo == TailStart(d)
        cnt == Len(d) - lo
    IN  cnt > 0 /\ SumVolume(d, lo, Len(d) - 1) >= VOLUME_LIMIT * cnt

\* df['Volume'].tail(90).max(), NaN for an empty tail.
three_month_max(d) ==
    IF Len(d) = 0 THEN NaN
    ELSE SetMax({d[j + 1].Volume : j \in TailStart(d)..(Len(d) - 1)})

\* df['Volume'].tail(90).max() < 1_000_000
three_month_max_too_low(d) == Lt(three_month_max(d), VOLUME_LIMIT)

ma5(d, k) == RollingMeanClose(d, MA_SHORT, k)
ma20(d, k) == RollingMeanClose(d, MA_LONG, k)

\* The body of the golden-cross loop at index i:
\* ma5.iloc[i] <= ma20.iloc[i] and ma5.iloc[i+1] > ma20.iloc[i+1].
\* "IndexError" where an iloc read is out of range (the second read happens
\* only when the first conjunct is true).
CrossAt(d, i) ==
    LET n == Len(d)
    IN  IF ~IlocOK(n, i) THEN "IndexError"
        ELSE IF ~Le(ma5(d, IlocPos(n, i)), ma20(d, IlocPos(n, i))) THEN "False"
        ELSE IF ~IlocOK(n, i + 1) THEN "IndexError"
        ELSE IF Gt(ma5(d, IlocPos(n, i + 1)), ma20(d, IlocPos(n, i + 1)))
             THEN "True" ELSE "False"

\* The loop "for i in range(lo, hi)" with break on the first cross.
RECURSIVE CrossScan(_, _, _)
CrossScan(d, i, hi) ==
    IF i >= hi THEN "False"
    ELSE LET c == CrossAt(d, i)
         IN  IF c = "False" THEN CrossScan(d, i + 1, hi) ELSE c

\* Mutant of golden_cross_found: the scan starts one transition earlier.
golden_cross_found_wide(d) ==
    CrossScan(d, Len(d) - CROSS_LOOKBACK - 1, Len(d) - 1)

\* golden_cross_found after "for i in range(len(df) - 7, len(df) - 1)".
golden_cross_found(d) ==
    CrossScan(d, Len(d) - CROSS_LOOKBACK, Len(d) - 1)

---------------------------------------------------------------------------
(* stock-filter-1.py: calculate_ichimoku and check_conditions *)

conversion_line_1(d, k) == Midpoint(d, conversion_period, k)
base_line_1(d, k) == Midpoint(d, base_period, k)
leading_span1_1(d, k) == Half(conversion_line_1(d, k), base_line_1(d, k))
leading_span2_1(d, k) == Midpoint(d, leading_span2_period, k)

\* ichimoku['leading_span1'].iloc[-26] and ichimoku['leading_span2'].iloc[-26]
span1_current(d) == leading_span1_1(d, IlocPos(Len(d), -displacement))
span2_current(d) == leading_span2_1(d, IlocPos(Len(d), -displacement))

\* df['Close'].iloc[-1], in quarter units.
current_price(d) == Quarter(d[Len(d)].Close)

\* What check_conditions returns, and the return statement taken.
Ret(v, e) == [value |-> v, exit |-> e]

check_conditions_1(d) ==
    IF Len(d) < MIN_LEN_1 THEN Ret("False", "history")
    ELSE IF three_month_avg_too_high(d) THEN Ret("False", "volume_avg")
    ELSE IF three_month_max_too_low(d) THEN Ret("False", "volume_max")
    ELSE LET g == golden_cross_found(d)
         IN  IF g = "IndexError" THEN Ret("IndexError", "golden_cross")
             ELSE IF g = "False" THEN Ret("False", "golden_cross")
             ELSE IF ~IlocOK(Len(d), -1) \/ ~IlocOK(Len(d), -displacement)
                  THEN Ret("IndexError", "ichimoku")
             ELSE IF isna(span1_current(d)) \/ isna(span2_current(d))
                  THEN Ret("False", "nan")
             ELSE IF ~Lt(span1_current(d), span2_current(d))
                  THEN Ret("False", "positive_cloud")
             ELSE IF Ge(current_price(d),
                        PyMin(span1_current(d), span2_current(d)))
                  THEN Ret("False", "price")
             ELSE Ret("True", "pass")

---------------------------------------------------------------------------
(* stock-filter.py: calculate_ichimoku and check_conditions *)

ISA_9(d, k) == Midpoint(d, period9, k)
ISB_26(d, k) == Midpoint(d, period26, k)

\* ((conversion + base) / 2).shift(26): row k holds the value of row k - 26.
ITS_26(d, k) ==
    IF k < period26 THEN NaN
    ELSE Half(ISA_9(d, k - period26), ISB_26(d, k - period26))

\* (52-bar midpoint).shift(26)
IKS_52(d, k) ==
    IF k < period26 THEN NaN ELSE Midpoint(d, period52, k - period26)

\* latest = df.iloc[-1]
cloud_top(d) == PyMax(ITS_26(d, Len(d) - 1), IKS_52(d, Len(d) - 1))
cloud_bottom(d) == PyMin(ITS_26(d, Len(d) - 1), IKS_52(d, Len(d) - 1))

\* Mutant of below_threshold: "<=" where the code has "<".
below_threshold_inclusive(d) ==
    ~isna(cloud_bottom(d)) /\ 20 * current_price(d) <= 19 * cloud_bottom(d)

\* latest['Close'] < cloud_bottom * 0.95, decided exactly:
\* close < 0.95 * bottom  <=>  20 * close < 19 * bottom.  (On the price grid
\* the double product cloud_bottom * 0.95 never exceeds the exact product
\* and is within 1e-12 of it, so the float comparison agrees.)
below_threshold(d) ==
    ~isna(cloud_bottom(d)) /\ 20 * current_price(d) < 19 * cloud_bottom(d)

above_cloud(d) == Gt(current_price(d), cloud_top(d))

check_conditions(d) ==
    IF Len(d) < MIN_LEN THEN Ret("False", "history")
    ELSE IF three_month_avg_too_high(d) THEN Ret("False", "volume_avg")
    ELSE IF three_month_max_too_low(d) THEN Ret("False", "volume_max")
    ELSE IF ~IlocOK(Len(d), -1) THEN Ret("IndexError", "ichimoku")
    ELSE IF below_threshold(d) \/ above_cloud(d) THEN Ret("False", "cloud")
    ELSE IF Le(ISA_9(d, Len(d) - 1), ISB_26(d, Len(d) - 1))
         THEN Ret("False", "trend")
    ELSE LET g == golden_cross_found(d)
         IN  IF g = "IndexError" THEN Ret("IndexError", "golden_cross")
             ELSE IF g = "False" THEN Ret("False", "golden_cross")
             ELSE Ret("True", "pass")

---------------------------------------------------------------------------
(* analyze_stock, both files *)

\* Python's None, and the tuple (name, code, close) a match is reported as.
None == <<>>
Match(info, d) == <<info.Name, info.Code, d[Len(d)].Close>>

\* What a call leaves behind: a value, or an exception in flight.
Returned(v) == [exc |-> FALSE, val |-> v]
Raised == [exc |-> TRUE, val |-> None]

\* What fdr.DataReader hands back for one code: it raises (network failure,
\* unknown code), or returns a frame that lacks the 'Volume' column
\* (malformed response), or returns the frame df.
Frame(d) == [raises |-> FALSE, malformed |-> FALSE, df |-> d]
FetchError == [raises |-> TRUE, malformed |-> FALSE, df |-> <<>>]
Malformed == [raises |-> FALSE, malformed |-> TRUE, df |-> <<>>]

\* The statements inside the try block of analyze_stock (stock-filter-1.py).
analyze_stock_try_1(info, data) ==
    IF data.raises THEN Raised                       \* fdr.DataReader raises
    ELSE IF data.malformed THEN Raised               \* df['Volume']: KeyError
    ELSE IF three_month_avg_too_high(data.df) THEN Returned(None)
    ELSE IF three_month_max_too_low(data.df) THEN Returned(None)
    ELSE LET c == check_conditions_1(data.df)
         IN  IF c.value = "IndexError" THEN Raised
             ELSE IF c.value = "True" THEN Returned(Match(info, data.df))
             ELSE Returned(None)

\* Mutant of analyze_stock_1: no except clause.
analyze_stock_1_uncaught(info, data) == analyze_stock_try_1(info, data)

\* try: ... except Exception: return None
analyze_stock_1(info, data) ==
    LET o == analyze_stock_try_1(info, data)
    IN  IF o.exc THEN Returned(None) ELSE o

\* The statements inside the try block of analyze_stock (stock-filter.py).
analyze_stock_try(info, data) ==
    IF data.raises THEN Raised
    ELSE IF data.malformed THEN Raised
    ELSE IF three_month_avg_too_high(data.df) THEN Returned(None)
    ELSE IF three_month_max_too_low(data.df) THEN Returned(None)
    ELSE LET c == check_conditions(data.df)
         IN  IF c.value = "IndexError" THEN Raised
             ELSE IF c.value = "True" THEN Returned(Match(info, data.df))
             ELSE Returned(None)

analyze_stock(info, data) ==
    LET o == analyze_stock_try(info, data)
    IN  IF o.exc THEN Returned(None) ELSE o

---------------------------------------------------------------------------
(* Input frames for the evaluator.                                         *)
(*                                                                         *)
(* A frame of n bars is laid out from its end, because every read of the   *)
(* code is relative to the last bar.  e is a bar's distance from the end   *)
(* (e = 1 is iloc[-1], e = 26 is iloc[-26]):                               *)
(*   e = 1          the last bar, when one is chosen                       *)
(*   e <= up        the most recent bars, trading one step higher          *)
(*   e = 26         a bar with an unusual high or low, when one is chosen  *)
(*   e > regime     the older price regime, when it differs                *)
(*   otherwise      the base bar                                           *)
(* Volume is flat except for one bar.                                      *)

MaxLen == 92
TailLen == 8

Bar(h, l, c) == [High |-> h, Low |-> l, Close |-> c]

BaseBar == Bar(100, 100, 100)
UpBar == Bar(104, 100, 104)
OlderBars == {BaseBar, Bar(140, 140, 140)}
RegimeStarts == {MIN_LEN, MIN_LEN_1 - 1}
NoBar == Bar(0, 0, 0)
SpecialBars == {NoBar, Bar(100, 90, 100), Bar(130, 100, 100)}
LastBars == {NoBar, Bar(100, 100, 100), Bar(100, 95, 95), Bar(100, 94, 94),
             Bar(120, 100, 120), Bar(121, 100, 121)}

Lens == {0, MIN_LEN - 1, MIN_LEN, MIN_LEN + 2, MIN_LEN_1 - 1, MIN_LEN_1,
         MIN_LEN_1 + 1, MaxLen}

\* base volume, the volume of the one unusual bar, and that bar's distance
\* from the end (91: just outside tail(90), present when the frame is longer).
VolumeProfiles ==
    { <<500000, 500000, 1>>, <<500000, 1500000, 1>>, <<1100000, 1500000, 1>>,
      <<500000, 1500000, VOLUME_TAIL + 1>>, <<500000, 1000000, 1>>,
      <<1000000, 1000000, 1>> }

PriceAt(n, e, older, regime, special, up, last) ==
    IF e = 1 /\ last # NoBar THEN last
    ELSE IF e <= up THEN UpBar
    ELSE IF e = displacement /\ special # NoBar THEN special
    ELSE IF e > regime THEN older
    ELSE BaseBar

MakeFrame(n, older, regime, special, up, last, vp) ==
    [i \in 1..n |->
        LET e == n - i + 1
            b == PriceAt(n, e, older, regime, special, up, last)
        IN  [High |-> b.High, Low |-> b.Low, Close |-> b.Close,
             Volume |-> IF e = vp[3] THEN vp[2] ELSE vp[1]]]

Info == [Code |-> "005930", Name |-> "A"]

---------------------------------------------------------------------------
(* Evaluator: each function is applied, in turn, to one fetched frame. *)

Pending == [value |-> "pending", exit |-> "pending"]

EvalIdle ==
    /\ df = <<>>
    /\ cc1 = Pending
    /\ cc2 = Pending
    /\ an1 = Returned(None)
    /\ an2 = Returned(None)

RunIdle ==
    /\ script = "stock-filter.py"
    /\ feed = <<>>
    /\ submitted = 0
    /\ future = <<>>
    /\ yielded = {}
    /\ matched_stocks = <<>>
    /\ hook = [called |-> FALSE]

EvalInit ==
    /\ EvalIdle
    /\ epc = "fetch"
    /\ RunIdle
    /\ mpc = "idle"

\* fdr.DataReader returns a frame.
DataReader ==
    /\ epc = "fetch"
    /\ \E n \in Lens, older \in OlderBars, regime \in RegimeStarts,
          special \in SpecialBars, up \in 0..TailLen, last \in LastBars,
          vp \in VolumeProfiles :
            df' = MakeFrame(n, older, regime, special, up, last, vp)
    /\ epc' = "check_conditions_1"
    /\ UNCHANGED <<cc1, cc2, an1, an2>>
    /\ UNCHANGED mvars

CheckConditions1 ==
    /\ epc = "check_conditions_1"
    /\ cc1' = check_conditions_1(df)
    /\ epc' = "check_conditions"
    /\ UNCHANGED <<df, cc2, an1, an2>>
    /\ UNCHANGED mvars

CheckConditions ==
    /\ epc = "check_conditions"
    /\ cc2' = check_conditions(df)
    /\ epc' = "analyze_stock_1"
    /\ UNCHANGED <<df, cc1, an1, an2>>
    /\ UNCHANGED mvars

AnalyzeStock1 ==
    /\ epc = "analyze_stock_1"
    /\ an1' = analyze_stock_1(Info, Frame(df))
    /\ epc' = "analyze_stock"
    /\ UNCHANGED <<df, cc1, cc2, an2>>
    /\ UNCHANGED mvars

AnalyzeStock ==
    /\ epc = "analyze_stock"
    /\ an2' = analyze_stock(Info, Frame(df))
    /\ epc' = "done"
    /\ UNCHANGED <<df, cc1, cc2, an1>>
    /\ UNCHANGED mvars

EvalNext ==
    \/ DataReader
    \/ CheckConditions1
    \/ CheckConditions
    \/ AnalyzeStock1
    \/ AnalyzeStock

EvalSpec == EvalInit /\ [][EvalNext]_vars

EvalDone == epc = "done"

---------------------------------------------------------------------------
(* send_discord_webhook, both files *)

\* Python truthiness of an optional string: None and "" are falsy.
\* "None" stands for Python's None.
Truthy(u) == u \notin {"None", ""}

Scripts == {"stock-filter-1.py", "stock-filter.py"}

\* Arguments, environment and what requests.post does when it is called:
\* it returns a response with a status code, or raises.
UrlArgs == {"None", "", "https://hook.example/a"}
EnvUrls == {"None", "", "https://hook.example/e"}
PostOutcomes ==
    {[raises |-> FALSE, status_code |-> c] : c \in {204, 200, 429, 500}}
        \cup {[raises |-> TRUE, status_code |-> 0]}

\* The message text, reduced to what selects its form: the "no matches"
\* line for an empty list, else one line per match.
Message(matched) ==
    IF Len(matched) = 0 THEN [form |-> "no_match", lines |-> 0]
    ELSE [form |-> "list", lines |-> Len(matched)]

\* stock-filter.py prints the message before posting it.
Preamble(s) == IF s = "stock-filter.py" THEN <<"message">> ELSE <<>>

\* Mutant of send_discord_webhook: the POST is not wrapped in try/except.
send_discord_webhook_uncaught(s, matched, arg, env, resp) ==
    LET url == IF ~Truthy(arg) THEN env ELSE arg
    IN  IF ~Truthy(url)
        THEN [posts |-> 0, payload |-> <<>>, printed |-> <<"no_url">>,
              exc |-> FALSE]
        ELSE [posts |-> 1, payload |-> <<Message(matched)>>,
              printed |-> Preamble(s) \o
                          (IF resp.raises THEN <<>>
                           ELSE IF resp.status_code = HTTP_NO_CONTENT
                                THEN <<"sent">> ELSE <<"send_failed">>),
              exc |-> resp.raises]

\* The call send_discord_webhook(matched, webhook_url=arg) in script s, with
\* os.getenv('DISCORD_WEBHOOK_URL') = env and requests.post answering resp:
\* the number of POSTs made, the payloads posted, what was printed, and
\* whether an exception left the function.
send_discord_webhook(s, matched, arg, env, resp) ==
    LET url == IF ~Truthy(arg) THEN env ELSE arg
    IN  IF ~Truthy(url)
        THEN [posts |-> 0, payload |-> <<>>, printed |-> <<"no_url">>,
              exc |-> FALSE]
        ELSE [posts |-> 1, payload |-> <<Message(matched)>>,
              printed |-> Preamble(s) \o
                          (IF resp.raises THEN <<"send_error">>
                           ELSE IF resp.status_code = HTTP_NO_CONTENT
                                THEN <<"sent">> ELSE <<"send_failed">>),
              exc |-> FALSE]

---------------------------------------------------------------------------
(* run_filter and the main block, both files *)

NumStocks == 3

Tasks == 1..NumStocks

\* get_stock_list(): the listing, one {Code, Name} row per stock.
stock_infos == [t \in Tasks |-> [Code |-> t, Name |-> t]]

\* Frames the data source can return in a run: one that only
\* stock-filter-1.py accepts, one that only stock-filter.py accepts, one
\* that fails the volume regime in both.
BelowCloudFrame ==
    MakeFrame(MIN_LEN_1, Bar(140, 140, 140), MIN_LEN, NoBar, 2,
              Bar(100, 95, 95), <<500000, 1500000, 1>>)
PenetrationFrame ==
    MakeFrame(MaxLen, Bar(140, 140, 140), MIN_LEN, Bar(100, 90, 100), 1,
              NoBar, <<500000, 1500000, 1>>)
QuietFrame ==
    MakeFrame(MIN_LEN_1, BaseBar, MIN_LEN, NoBar, 2, NoBar,
              <<500000, 500000, 1>>)

Answers == <<FetchError, Malformed, Frame(BelowCloudFrame),
             Frame(PenetrationFrame), Frame(QuietFrame)>>

\* analyze_stock of script s on listing row t when the data source answers
\* Answers[k]: the function tabulated over the inputs a run can present.
AnalyzeTable ==
    [s \in Scripts, t \in Tasks, k \in 1..Len(Answers) |->
        IF s = "stock-filter-1.py"
        THEN analyze_stock_1(stock_infos[t], Answers[k])
        ELSE analyze_stock(stock_infos[t], Answers[k])]

\* analyze_stock of the running script on task t.
RunAnalyze(t) == AnalyzeTable[script, t, feed[t]]

NoFuture == [state |-> "none", outcome |-> Returned(None)]

Running == {t \in Tasks : future[t].state = "running"}

\* Mutant of collect: the result is appended without the "if result" test.
collect_unconditional(matched, result) == Append(matched, result)

\* result = future.result(); if result: matched_stocks.append(result)
collect(matched, result) ==
    IF result # None THEN Append(matched, result) ELSE matched

Init ==
    /\ EvalIdle
    /\ epc = "idle"
    /\ script \in Scripts
    /\ feed \in [Tasks -> 1..Len(Answers)]
    /\ mpc = "submit"
    /\ submitted = 0
    /\ future = [t \in Tasks |-> NoFuture]
    /\ yielded = {}
    /\ matched_stocks = <<>>
    /\ hook = [called |-> FALSE]

\* executor.submit(analyze_stock, stock_info), in listing order; after the
\* last one the main thread enters the as_completed loop.
Submit ==
    /\ mpc = "submit"
    /\ submitted < NumStocks
    /\ submitted' = submitted + 1
    /\ future' = [future EXCEPT ![submitted + 1].state = "pending"]
    /\ mpc' = IF submitted + 1 = NumStocks THEN "collect" ELSE "submit"
    /\ UNCHANGED <<script, feed, yielded, matched_stocks, hook>>
    /\ UNCHANGED evars

\* A free worker thread of the pool takes the oldest queued task.
Start(t) ==
    /\ future[t].state = "pending"
    /\ \A u \in Tasks : u < t => future[u].state # "pending"
    /\ Cardinality(Running) < max_workers
    /\ future' = [future EXCEPT ![t].state = "running"]
    /\ UNCHANGED <<script, feed, mpc, submitted, yielded, matched_stocks, hook>>
    /\ UNCHANGED evars

\* The worker runs analyze_stock to its end; the Future holds its return
\* value, or the exception that left it.
Finish(t) ==
    /\ future[t].state = "running"
    /\ future' = [future EXCEPT ![t] =
                      [state |-> "finished", outcome |-> RunAnalyze(t)]]
    /\ UNCHANGED <<script, feed, mpc, submitted, yielded, matched_stocks, hook>>
    /\ UNCHANGED evars

\* One iteration of "for future in as_completed(future_to_stock)": a
\* finished future not yet yielded.  future.result() re-raises the task's
\* exception in the main thread, which leaves run_filter and the script.
Collect(t) ==
    /\ mpc = "collect"
    /\ future[t].state = "finished"
    /\ t \notin yielded
    /\ yielded' = yielded \cup {t}
    /\ IF future[t].outcome.exc
       THEN /\ mpc' = "run_filter_raised"
            /\ UNCHANGED matched_stocks
       ELSE /\ mpc' = mpc
            /\ matched_stocks' = collect(matched_stocks, future[t].outcome.val)
    /\ UNCHANGED <<script, feed, submitted, future, hook>>
    /\ UNCHANGED evars

\* as_completed is exhausted, the executor shuts down, run_filter returns.
Return ==
    /\ mpc = "collect"
    /\ yielded = Tasks
    /\ mpc' = "returned"
    /\ UNCHANGED <<script, feed, submitted, future, yielded, matched_stocks, hook>>
    /\ UNCHANGED evars

\* The main block: send_discord_webhook(matched) or send_discord_webhook([]).
\* arg ranges over what a caller may pass for webhook_url (the main block
\* passes nothing, i.e. None).
SendDiscordWebhook ==
    /\ mpc = "returned"
    /\ \E arg \in UrlArgs, env \in EnvUrls, resp \in PostOutcomes :
         LET r == send_discord_webhook(script, matched_stocks, arg, env, resp)
         IN  /\ hook' = [called |-> TRUE, arg |-> arg, env |-> env,
                         resp |-> resp, posts |-> r.posts,
                         payload |-> r.payload, printed |-> r.printed]
             /\ mpc' = IF r.exc THEN "webhook_raised" ELSE "exit"
    /\ UNCHANGED <<script, feed, submitted, future, yielded, matched_stocks>>
    /\ UNCHANGED evars

Next ==
    \/ Submit
    \/ \E t \in Tasks : Start(t)
    \/ \E t \in Tasks : Finish(t)
    \/ \E t \in Tasks : Collect(t)
    \/ Return
    \/ SendDiscordWebhook

Spec == Init /\ [][Next]_vars

---------------------------------------------------------------------------
(* Properties of the evaluator *)

LastIdx == Len(df) - 1

\* The statements of check_conditions that read the cloud were executed.
ReadCloud1 == cc1.exit \in {"nan", "positive_cloud", "price", "pass"}
ReadCloud2 == cc2.exit \in {"cloud", "trend", "golden_cross", "pass"}

\* C3: whenever a span (or conversion/base line) used for the current bar is
\* undefined, check_conditions returns false, in both files.
C3_UndefinedFails ==
    EvalDone =>
        /\ (ReadCloud1 /\ (isna(span1_current(df)) \/ isna(span2_current(df))))
               => cc1.value = "False"
        /\ (ReadCloud2 /\ (\/ isna(ITS_26(df, LastIdx))
                           \/ isna(IKS_52(df, LastIdx))
                           \/ isna(ISA_9(df, LastIdx))
                           \/ isna(ISB_26(df, LastIdx))))
               => cc2.value = "False"

\* C4: with at least 78 bars, the cloud bounds read by stock-filter-1.py
\* (undisplaced spans at iloc[-26]) equal those read by stock-filter.py
\* (spans shifted by 26, at the last bar).
C4_DisplacementEquivalence ==
    (EvalDone /\ Len(df) >= MIN_LEN_1 /\ ReadCloud1 /\ ReadCloud2) =>
        /\ PyMax(span1_current(df), span2_current(df)) = cloud_top(df)
        /\ PyMin(span1_current(df), span2_current(df)) = cloud_bottom(df)

\* C7: a frame shorter than 52 + 26 bars makes check_conditions return
\* false, in both files.
C7_ShortHistoryRejected ==
    (EvalDone /\ Len(df) < leading_span2_period + displacement) =>
        /\ cc1.value = "False"
        /\ cc2.value = "False"

\* The undisplaced spans at the position 26 bars before the last bar.
Span1Before26 == leading_span1_1(df, LastIdx - displacement)
Span2Before26 == leading_span2_1(df, LastIdx - displacement)

\* C8: check_conditions of stock-filter-1.py returns true only if the spans
\* 26 bars before the last bar are both defined, form a negative cloud, and
\* the last close is strictly below both.
C8_StrictBelowCloud ==
    (EvalDone /\ cc1.value = "True") =>
        /\ ~isna(Span1Before26) /\ ~isna(Span2Before26)
        /\ Span1Before26 < Span2Before26
        /\ current_price(df) < Span1Before26
        /\ current_price(df) < Span2Before26

\* A golden cross at transition index i: ma5[i] <= ma20[i] and
\* ma5[i+1] > ma20[i+1] (5- and 20-bar simple means of the close).
GoldenCrossAt(i) ==
    /\ i >= MA_LONG - 1 /\ i + 1 <= LastIdx
    /\ 4 * SumClose(df, i - 4, i) <= SumClose(df, i - 19, i)
    /\ 4 * SumClose(df, i - 3, i + 1) > SumClose(df, i - 18, i + 1)

CrossInWindow == \E i \in (Len(df) - 7)..(Len(df) - 2) : GoldenCrossAt(i)

\* The crossover predicate was evaluated / was evaluated and passed.
CrossReached1 == cc1.exit \notin {"pending", "history", "volume_avg", "volume_max"}
CrossReached2 == cc2.exit \in {"golden_cross", "pass"}
CrossPassed1 == CrossReached1 /\ cc1.exit # "golden_cross"
CrossPassed2 == cc2.exit = "pass"

\* C5: in both files the crossover predicate passes exactly when a golden
\* cross lies at a transition index in [len-7, len-2]; without one,
\* check_conditions returns false.
C5_GoldenCrossWindow ==
    EvalDone =>
        /\ CrossReached1 => (CrossPassed1 <=> CrossInWindow)
        /\ CrossReached2 => (CrossPassed2 <=> CrossInWindow)
        /\ ~CrossInWindow => (cc1.value = "False" /\ cc2.value = "False")

\* C5 witness: the only golden cross sits on the oldest transition of the
\* window and both files accept it; the frame passes stock-filter.py.
C5_Witness ==
    /\ EvalDone
    /\ GoldenCrossAt(Len(df) - 7)
    /\ \A i \in (Len(df) - 6)..(Len(df) - 2) : ~GoldenCrossAt(i)
    /\ CrossPassed1
    /\ cc2.value = "True"

\* The volumes of the trailing 90 bars (all bars of a shorter frame).
Trailing == {i \in 1..Len(df) : i > Len(df) - 90}

RECURSIVE VolumeTotal(_)
VolumeTotal(S) ==
    IF S = {} THEN 0
    ELSE LET i == CHOOSE x \in S : TRUE
         IN  df[i].Volume + VolumeTotal(S \ {i})

VolumeRegime ==
    /\ Trailing # {}
    /\ VolumeTotal(Trailing) < 1000000 * Cardinality(Trailing)
    /\ \E i \in Trailing : df[i].Volume >= 1000000

\* C6: a frame is accepted (by check_conditions or by analyze_stock, in
\* either file) only if over its trailing 90 bars the mean volume is below
\* 1,000,000 and the maximum volume is at least 1,000,000.
C6_VolumeRegime ==
    (EvalDone /\ (\/ cc1.value = "True" \/ cc2.value = "True"
                  \/ an1.val # None \/ an2.val # None))
        => VolumeRegime

\* C6 witness: analyze_stock of stock-filter.py reports a match for a frame
\* longer than 90 bars.
C6_Witness ==
    /\ EvalDone
    /\ Len(df) > 90
    /\ an2.val # None
    /\ cc2.value = "True"

\* max / min of two defined numbers.
Max2(a, b) == IF a >= b THEN a ELSE b
Min2(a, b) == IF a <= b THEN a ELSE b

\* The cloud-penetration predicate at the last bar, on the forward-displaced
\* spans: cloud_bottom * 0.95 <= close <= cloud_top and conversion > base.
\* An undefined span, conversion line or base line fails the predicate.
CloudPenetration ==
    LET s1 == ITS_26(df, LastIdx)
        s2 == IKS_52(df, LastIdx)
        cv == ISA_9(df, LastIdx)
        bs == ISB_26(df, LastIdx)
    IN  /\ ~isna(s1) /\ ~isna(s2) /\ ~isna(cv) /\ ~isna(bs)
        /\ 95 * Min2(s1, s2) <= 100 * current_price(df)
        /\ current_price(df) <= Max2(s1, s2)
        /\ cv > bs

---------------------------------------------------------------------------
(* Properties of the run *)

RunReturned == mpc \in {"returned", "exit", "webhook_raised"}

\* The positions of matched_stocks that hold an entry for task t's code.
EntriesOf(t) ==
    {i \in 1..Len(matched_stocks) : matched_stocks[i][2] = stock_infos[t].Code}

\* Task t's fetch or evaluation raises.
Fails(t) == Answers[feed[t]].raises \/ Answers[feed[t]].malformed

\* What analyze_stock yields for task t from t's own data alone.
Alone(t) == RunAnalyze(t).val

\* C1: whichever stocks fail, run_filter never lets an exception out; once
\* it has returned, a failing stock has no entry and every other stock has
\* exactly the result its own data gives.
C1_FailureIsolation ==
    /\ mpc # "run_filter_raised"
    /\ RunReturned =>
         \A t \in Tasks :
            IF Fails(t) \/ Alone(t) = None
            THEN EntriesOf(t) = {}
            ELSE /\ Cardinality(EntriesOf(t)) = 1
                 /\ \A i \in EntriesOf(t) : matched_stocks[i] = Alone(t)

\* C1 witness: run_filter has returned; the fetch of stock #2 raised and
\* stocks #1 and #3 are both reported.
C1_Witness ==
    /\ mpc = "returned"
    /\ Answers[feed[2]].raises
    /\ EntriesOf(1) # {} /\ EntriesOf(3) # {}
    /\ EntriesOf(2) = {}

\* The number of positions of a list that hold x.
Count(list, x) == Cardinality({i \in 1..Len(list) : list[i] = x})

\* C2: at every point of every interleaving matched_stocks holds, as a
\* multiset, exactly one entry per yielded task whose analyze_stock gives a
\* match, and nothing else; at the return every task has been yielded.
C2_OrderIndependentAggregate ==
    /\ Len(matched_stocks) = Cardinality({t \in yielded : Alone(t) # None})
    /\ \A t \in yielded : Alone(t) # None => Count(matched_stocks, Alone(t)) = 1
    /\ RunReturned => yielded = Tasks

\* C2 witness: run_filter returns two matches in the reverse of the
\* submission order.
C2_Witness ==
    /\ mpc = "returned"
    /\ Len(matched_stocks) = 2
    /\ matched_stocks[1][2] > matched_stocks[2][2]

NoUrl(u) == u = "None" \/ u = ""

\* The last line the call printed.
LastPrinted == hook.printed[Len(hook.printed)]

\* C10: a call of send_discord_webhook makes at most one POST; with no URL
\* given and none configured it makes none; a status other than 204 or a
\* transport exception is logged, is not retried, and the call returns
\* normally, so the run reaches its end.
C10_WebhookNeverFatal ==
    /\ mpc # "webhook_raised"
    /\ hook.called =>
         /\ mpc = "exit"
         /\ hook.posts <= 1
         /\ (NoUrl(hook.arg) /\ NoUrl(hook.env)) => hook.posts = 0
         /\ (~(NoUrl(hook.arg) /\ NoUrl(hook.env)) /\ hook.resp.raises)
                => (hook.posts = 1 /\ LastPrinted = "send_error")
         /\ (~(NoUrl(hook.arg) /\ NoUrl(hook.env))
                /\ ~hook.resp.raises /\ hook.resp.status_code # 204)
                => (hook.posts = 1 /\ LastPrinted = "send_failed")

\* C10 witness: the POST raised a transport exception and the run ended
\* normally after a single attempt.
C10_Witness ==
    /\ hook.called
    /\ ~NoUrl(hook.env)
    /\ hook.resp.raises
    /\ hook.posts = 1
    /\ mpc = "exit"
=============================================================================
